---- MODULE Spec2Model ----
(***************************************************************************)
(* Model of the MedVani chat client: the zustand chat store                *)
(* (frontend/components/useChatStore.ts) and the session synchronizer,     *)
(* message exchange and voice capture handlers of                          *)
(* frontend/components/ChatInterface.tsx.                                  *)
(*                                                                         *)
(* Every async handler is split at its awaits: the part before the await   *)
(* is the action of the user event, the part after it is the action of the *)
(* response, which works on the values the handler's closure captured when *)
(* it was called (React state is read from the render the handler belongs  *)
(* to) and on the store/ref values it reads afresh.                        *)
(***************************************************************************)
EXTENDS Bags, FiniteSets, Integers, Sequences, TLC

VARIABLES
    store,        \* useChatStore state: sessions, activeSessionId, messagesBySession, language
    input,        \* useState input (sequence of characters)
    media,        \* useState media (sequence of attachments)
    loading,      \* useState loading
    user,         \* useState user
    calls,        \* bag of requests / timers in flight, each with its closure
    uuidCount,    \* number of crypto.randomUUID() values drawn so far
    recording,    \* useState recording
    voiceBusy,    \* useState voiceBusy
    voiceError,   \* useState voiceError
    speechRef,    \* speechRef.current
    mediaRecorderRef, \* mediaRecorderRef.current
    mediaStreamRef,   \* mediaStreamRef.current
    audioChunks,  \* audioChunksRef.current (number of buffered chunks)
    recs,         \* recognition objects created so far: id -> lifecycle state
    captures,     \* getUserMedia streams acquired so far, each with its MediaRecorder
    speechCtor,   \* what window.SpeechRecognition / webkitSpeechRecognition does in this browser
    voiceCalls,   \* bag of voice continuations in flight
    last          \* the handler step taken last (trace variable)

chatVars == <<store, input, media, loading, user, calls, uuidCount>>
voiceVars == <<recording, voiceBusy, voiceError, speechRef, mediaRecorderRef,
               mediaStreamRef, audioChunks, recs, captures, speechCtor, voiceCalls>>
vars == <<store, input, media, loading, user, calls, uuidCount,
          recording, voiceBusy, voiceError, speechRef, mediaRecorderRef,
          mediaStreamRef, audioChunks, recs, captures, speechCtor, voiceCalls, last>>

(***************************************************************************)
(* Bounds                                                                  *)
(***************************************************************************)
MaxCalls == 2        \* requests and timers in flight at once
MaxUuid == 1         \* locally generated session ids
MaxMedia == 1        \* attachments in the composer
MaxTotalMsgs == 2    \* messages a run of sends may add to the store
MaxRemoteLen == 1    \* sessions in one remote session list
MaxRecs == 2         \* recognition objects constructed in a run
MaxCaptures == 2     \* microphone streams acquired in a run
MaxInputLen == 3     \* characters in the composer after a transcript is appended
MaxStoreSessions == 2 \* sessions of a store state the store operations are applied to
MaxSyncLen == 2      \* sessions in one remote session list of the session sync
MaxSendMedia == 2    \* attachments in the composer when a message is sent
MaxStoreLog == 2     \* messages of one log while the store operations are applied

(***************************************************************************)
(* Values                                                                  *)
(***************************************************************************)
Null == "null"
NoRef == 0   \* a ref whose current is null (handles are numbered from 1)
Undefined == "undefined"
Uid == "u1"
NewChatTitle == "New chat"
ServerIds == {"s1", "s2"}
LocalId(n) == IF n = 1 THEN "l1" ELSE IF n = 2 THEN "l2" ELSE IF n = 3 THEN "l3" ELSE "l4"

\* Texts are sequences of tokens: a token is a character or a fixed phrase.
MediaAttachedText == <<"[Media attached]">>
NoResponseText == <<"No response.">>
NetworkErrorText == <<"Network/server error. Try again.">>
ReplyText == <<"r">>

InputValues == {<<>>, <<" ">>, <<" ", "a", " ">>}
AttachmentPool == {[kind |-> "image", content |-> "b64i"], [kind |-> "pdf", content |-> "b64p"]}
LangChoices == {"auto", "hi-IN"}

RECURSIVE TrimStart(_)
TrimStart(s) == IF s # <<>> /\ Head(s) = " " THEN TrimStart(Tail(s)) ELSE s

RECURSIVE TrimEnd(_)
TrimEnd(s) == IF s # <<>> /\ s[Len(s)] = " " THEN TrimEnd(SubSeq(s, 1, Len(s) - 1)) ELSE s

Trim(s) == TrimEnd(TrimStart(s))

(***************************************************************************)
(* useChatStore                                                            *)
(***************************************************************************)
EmptyMessages == [k \in {} |-> <<>>]

InitStore == [sessions |-> <<>>, activeSessionId |-> Null,
              messagesBySession |-> EmptyMessages, language |-> "auto"]

SessionIds(sessions) == {sessions[i].id : i \in 1..Len(sessions)}

\* messagesBySession[id] ?? []
LogOf(m, id) == IF id \in DOMAIN m THEN m[id] ELSE <<>>

\* the titles of the sessions with this id
TitleOf(st, id) ==
    {st.sessions[i].title : i \in {j \in 1..Len(st.sessions) : st.sessions[j].id = id}}

setLanguage(st, language) == [st EXCEPT !.language = language]

setSessions(st, sessions) == [st EXCEPT !.sessions = sessions]

setActiveSession(st, id) == [st EXCEPT !.activeSessionId = id]

\* setMessages that forgets the other entries
setMessagesAlone(st, sessionId, messages) ==
    [st EXCEPT !.messagesBySession = [k \in {sessionId} |-> messages]]

setMessages(st, sessionId, messages) ==
    [st EXCEPT !.messagesBySession =
        [k \in (DOMAIN st.messagesBySession) \cup {sessionId} |->
            IF k = sessionId THEN messages ELSE st.messagesBySession[k]]]

\* appendMessage that forgets the existing sequence
appendMessageDroppingLog(st, sessionId, message) ==
    [st EXCEPT !.messagesBySession =
        [k \in (DOMAIN st.messagesBySession) \cup {sessionId} |->
            IF k = sessionId THEN <<message>> ELSE st.messagesBySession[k]]]

\* appendMessage that puts the new message in front
appendMessagePrepending(st, sessionId, message) ==
    [st EXCEPT !.messagesBySession =
        [k \in (DOMAIN st.messagesBySession) \cup {sessionId} |->
            IF k = sessionId
            THEN <<message>> \o (IF sessionId \in DOMAIN st.messagesBySession
                                 THEN st.messagesBySession[sessionId] ELSE <<>>)
            ELSE st.messagesBySession[k]]]

appendMessage(st, sessionId, message) ==
    [st EXCEPT !.messagesBySession =
        [k \in (DOMAIN st.messagesBySession) \cup {sessionId} |->
            IF k = sessionId
            THEN Append(IF sessionId \in DOMAIN st.messagesBySession
                        THEN st.messagesBySession[sessionId] ELSE <<>>, message)
            ELSE st.messagesBySession[k]]]

\* clearSessionMessages that empties every log
clearSessionMessagesEverywhere(st, sessionId) ==
    [st EXCEPT !.messagesBySession =
        [k \in (DOMAIN st.messagesBySession) \cup {sessionId} |-> <<>>]]

clearSessionMessages(st, sessionId) ==
    [st EXCEPT !.messagesBySession =
        [k \in (DOMAIN st.messagesBySession) \cup {sessionId} |->
            IF k = sessionId THEN <<>> ELSE st.messagesBySession[k]]]

\* removeSession that keeps the message log of the session
removeSessionKeepingLog(st, sessionId) ==
    [st EXCEPT
        !.sessions = SelectSeq(st.sessions, LAMBDA s : s.id # sessionId),
        !.activeSessionId = IF st.activeSessionId = sessionId THEN Null ELSE st.activeSessionId]

removeSession(st, sessionId) ==
    [st EXCEPT
        !.sessions = SelectSeq(st.sessions, LAMBDA s : s.id # sessionId),
        !.messagesBySession =
            [k \in (DOMAIN st.messagesBySession) \ {sessionId} |-> st.messagesBySession[k]],
        !.activeSessionId = IF st.activeSessionId = sessionId THEN Null ELSE st.activeSessionId]

\* updateSessionTitle that retitles every session
updateSessionTitleOfAll(st, sessionId, title) ==
    [st EXCEPT !.sessions =
        [i \in 1..Len(st.sessions) |-> [st.sessions[i] EXCEPT !.title = title]]]

updateSessionTitle(st, sessionId, title) ==
    [st EXCEPT !.sessions =
        [i \in 1..Len(st.sessions) |->
            IF st.sessions[i].id = sessionId
            THEN [st.sessions[i] EXCEPT !.title = title]
            ELSE st.sessions[i]]]

(***************************************************************************)
(* Remote responses (the backend is an external collaborator: any response *)
(* its contract allows may arrive)                                         *)
(***************************************************************************)
FailureKinds == {"http", "throw", "malformed"}

\* SessionApi records: title and updated_at are optional.
RemoteSessions ==
    {[id |-> "s1", title |-> Undefined, updated_at |-> Undefined],
     [id |-> "s1", title |-> "T1", updated_at |-> "t1"]}

RECURSIVE DistinctIds(_)
DistinctIds(list) ==
    \/ list = <<>>
    \/ /\ Head(list).id \notin SessionIds(Tail(list))
       /\ DistinctIds(Tail(list))

\* Session lists the remote may return: ids are unique in a list.
RemoteLists ==
    {list \in UNION {[1..n -> RemoteSessions] : n \in 0..MaxRemoteLen} : DistinctIds(list)}

\* SessionDetailApi bodies.
RemoteMessageLists ==
    {<<>>,
     <<[role |-> "user", text |-> <<"a">>], [role |-> "assistant", text |-> ReplyText]>>}

RemoteDetails == [title : {"", "T1"}, messages : RemoteMessageLists]

\* ChatApiResponse bodies.
UndefinedText == <<Undefined>>

ChatResponses == [response : {UndefinedText, ReplyText}, title : {"", "T1"}]

(***************************************************************************)
(* Helpers of the handlers                                                 *)
(***************************************************************************)
NumCalls == BagCardinality(calls)

AddCall(bag, c) == bag (+) SetToBag({c})

DropCall(bag, c) == bag (-) SetToBag({c})

CallsOfKind(kind) == {c \in BagToSet(calls) : c.kind = kind}

RECURSIVE SumLen(_, _)
SumLen(m, keys) ==
    IF keys = {} THEN 0
    ELSE LET k == CHOOSE x \in keys : TRUE IN Len(m[k]) + SumLen(m, keys \ {k})

TotalMsgs(st) == SumLen(st.messagesBySession, DOMAIN st.messagesBySession)

\* loadSessions, try branch: data.map(...) then setSessions(normalized)
NormalizeSession(s) ==
    [id |-> s.id,
     title |-> IF s.title = Undefined THEN NewChatTitle ELSE s.title,
     updated_at |-> s.updated_at]

\* a normalisation that turns the list round
NormalizeSessionsReversed(data) ==
    [i \in 1..Len(data) |-> NormalizeSession(data[Len(data) + 1 - i])]

NormalizeSessions(data) == [i \in 1..Len(data) |-> NormalizeSession(data[i])]

\* a merge that prepends without looking for the id
MergeSessionAlwaysPrepending(sessions, next) == <<next>> \o sessions

\* createSession, try branch: merge of the returned session into the
\* sessions of the closure
MergeSession(sessions, next) ==
    IF next.id \notin SessionIds(sessions)
    THEN <<next>> \o sessions
    ELSE [i \in 1..Len(sessions) |-> IF sessions[i].id = next.id THEN next ELSE sessions[i]]

\* createSession: the store after the try branch (data) or the catch branch (local id)
CreateSessionOk(st, closureSessions, data) ==
    LET next == NormalizeSession(data) IN
    setMessages(setActiveSession(setSessions(st, MergeSession(closureSessions, next)), next.id),
                next.id, <<>>)

CreateSessionFail(st, closureSessions, local) ==
    setMessages(setActiveSession(
                    setSessions(st, <<[id |-> local, title |-> NewChatTitle,
                                       updated_at |-> Undefined]>> \o closureSessions),
                    local),
                local, <<>>)

\* sendMessage: userText, the user turn and the request body
UserText(inp) == IF Trim(inp) # <<>> THEN Trim(inp) ELSE MediaAttachedText

UserMessage(inp, med) == [role |-> "user", text |-> UserText(inp), media |-> med]

AssistantMessage(text) == [role |-> "assistant", text |-> text, media |-> <<>>]

\* a remap that sends every kind as it is
WireMediaKeepingKind(med) ==
    [i \in 1..Len(med) |-> [kind |-> med[i].kind, content |-> med[i].content]]

WireMedia(med) ==
    [i \in 1..Len(med) |->
        [kind |-> IF med[i].kind = "pdf" THEN "text" ELSE med[i].kind,
         content |-> med[i].content]]

\* a chat request that leaves the attachments out
ChatCallWithoutMedia(sessionId, inp, med, lang, closureActive) ==
    [kind |-> "chat", session_id |-> sessionId, message |-> UserText(inp),
     language_lock |-> IF lang = "auto" THEN Null ELSE lang,
     media |-> <<>>, activeSessionId |-> closureActive]

ChatCall(sessionId, inp, med, lang, closureActive) ==
    [kind |-> "chat", session_id |-> sessionId, message |-> UserText(inp),
     language_lock |-> IF lang = "auto" THEN Null ELSE lang,
     media |-> WireMedia(med), activeSessionId |-> closureActive]

\* sendMessage line 286: nothing to send
NothingToSend(inp, med) == Trim(inp) = <<>> /\ Len(med) = 0

(***************************************************************************)
(* Initial state: the component as mounted, nobody signed in yet           *)
(***************************************************************************)
InitComponent ==
    /\ store = InitStore
    /\ input = <<>>
    /\ media = <<>>
    /\ loading = FALSE
    /\ user = Null
    /\ calls = EmptyBag
    /\ uuidCount = 0
    /\ recording = FALSE
    /\ voiceBusy = FALSE
    /\ voiceError = ""
    /\ speechRef = NoRef
    /\ mediaRecorderRef = NoRef
    /\ mediaStreamRef = NoRef
    /\ audioChunks = 0
    /\ recs = <<>>
    /\ captures = <<>>
    /\ voiceCalls = EmptyBag
    /\ last = [op |-> "mount"]

Init ==
    /\ InitComponent
    /\ speechCtor = "works"

(***************************************************************************)
(* Composer events                                                         *)
(***************************************************************************)
\* textarea onChange
SetInput(v) ==
    /\ v # input
    /\ input' = v
    /\ last' = [op |-> "setInput"]
    /\ UNCHANGED <<store, media, loading, user, calls, uuidCount>>
    /\ UNCHANGED voiceVars

\* onPickFile: the converted file is appended to the attachments
OnPickFile(att) ==
    /\ Len(media) < MaxMedia
    /\ media' = Append(media, att)
    /\ last' = [op |-> "onPickFile"]
    /\ UNCHANGED <<store, input, loading, user, calls, uuidCount>>
    /\ UNCHANGED voiceVars

\* attachment chip onClick: removes the attachment at idx
RemoveMedia(idx) ==
    /\ idx \in 1..Len(media)
    /\ media' = [i \in 1..(Len(media) - 1) |-> IF i < idx THEN media[i] ELSE media[i + 1]]
    /\ last' = [op |-> "removeMedia"]
    /\ UNCHANGED <<store, input, loading, user, calls, uuidCount>>
    /\ UNCHANGED voiceVars

\* language select onChange
SelectLanguage(lang) ==
    /\ lang # store.language
    /\ store' = setLanguage(store, lang)
    /\ last' = [op |-> "setLanguage"]
    /\ UNCHANGED <<input, media, loading, user, calls, uuidCount>>
    /\ UNCHANGED voiceVars

(***************************************************************************)
(* Sign-in and Remote Session Sync                                         *)
(***************************************************************************)
\* onAuthStateChanged callback with a user: the effect belongs to the first
\* render, so the loadSessions it calls sees activeSessionId = null.
AuthStateChanged ==
    /\ user = Null
    /\ user' = Uid
    /\ store' = setActiveSession(store, Null)
    /\ calls' = AddCall(calls, [kind |-> "loadSessions", activeSessionId |-> Null])
    /\ last' = [op |-> "onAuthStateChanged"]
    /\ UNCHANGED <<input, media, loading, uuidCount>>
    /\ UNCHANGED voiceVars

\* loadSessions: the response to the list request, try branch
LoadSessionsOk(c, data) ==
    /\ c.kind = "loadSessions"
    /\ store' = setSessions(store, NormalizeSessions(data))
    /\ calls' = DropCall(calls, c)
    /\ last' = [op |-> "loadSessions", outcome |-> "ok", activeSessionId |-> c.activeSessionId]
    /\ UNCHANGED <<input, media, loading, user, uuidCount>>
    /\ UNCHANGED voiceVars

\* loadSessions: catch branch; activeSessionId is the closure's value
LoadSessionsFail(c, why) ==
    /\ c.kind = "loadSessions"
    /\ IF c.activeSessionId = Null
       THEN /\ uuidCount < MaxUuid
            /\ uuidCount' = uuidCount + 1
            /\ store' = setActiveSession(
                            setSessions(store, <<[id |-> LocalId(uuidCount + 1),
                                                  title |-> NewChatTitle,
                                                  updated_at |-> Undefined]>>),
                            Null)
       ELSE UNCHANGED <<store, uuidCount>>
    /\ calls' = DropCall(calls, c)
    /\ last' = [op |-> "loadSessions", outcome |-> why, activeSessionId |-> c.activeSessionId]
    /\ UNCHANGED <<input, media, loading, user>>
    /\ UNCHANGED voiceVars

\* session row onClick: setActiveSession, then loadSessionMessages if signed in
SelectSession(id) ==
    /\ id \in SessionIds(store.sessions)
    /\ NumCalls < MaxCalls
    /\ store' = setActiveSession(store, id)
    /\ calls' = IF user # Null
                THEN AddCall(calls, [kind |-> "loadSessionMessages", sessionId |-> id])
                ELSE calls
    /\ last' = [op |-> "selectSession", id |-> id]
    /\ UNCHANGED <<input, media, loading, user, uuidCount>>
    /\ UNCHANGED voiceVars

\* loadSessionMessages: try branch
LoadSessionMessagesOk(c, data) ==
    /\ c.kind = "loadSessionMessages"
    /\ LET msgs == [i \in 1..Len(data.messages) |->
                       [role |-> data.messages[i].role, text |-> data.messages[i].text,
                        media |-> <<>>]]
           st1 == setMessages(store, c.sessionId, msgs)
       IN store' = IF data.title # "" THEN updateSessionTitle(st1, c.sessionId, data.title)
                   ELSE st1
    /\ calls' = DropCall(calls, c)
    /\ last' = [op |-> "loadSessionMessages", outcome |-> "ok", id |-> c.sessionId]
    /\ UNCHANGED <<input, media, loading, user, uuidCount>>
    /\ UNCHANGED voiceVars

\* a catch branch that leaves the stale log in place
LoadSessionMessagesFailKeepingLog(c, why) ==
    /\ c.kind = "loadSessionMessages"
    /\ store' = store
    /\ calls' = DropCall(calls, c)
    /\ last' = [op |-> "loadSessionMessages", outcome |-> why, id |-> c.sessionId]
    /\ UNCHANGED <<input, media, loading, user, uuidCount>>
    /\ UNCHANGED voiceVars

\* loadSessionMessages: catch branch
LoadSessionMessagesFail(c, why) ==
    /\ c.kind = "loadSessionMessages"
    /\ store' = setMessages(store, c.sessionId, <<>>)
    /\ calls' = DropCall(calls, c)
    /\ last' = [op |-> "loadSessionMessages", outcome |-> why, id |-> c.sessionId]
    /\ UNCHANGED <<input, media, loading, user, uuidCount>>
    /\ UNCHANGED voiceVars

\* deleteSession up to the await
DeleteSession(id) ==
    /\ id \in SessionIds(store.sessions)
    /\ NumCalls < MaxCalls
    /\ calls' = IF user # Null THEN AddCall(calls, [kind |-> "deleteSession", id |-> id])
                ELSE calls
    /\ last' = [op |-> "deleteSession", id |-> id]
    /\ UNCHANGED <<store, input, media, loading, user, uuidCount>>
    /\ UNCHANGED voiceVars

\* deleteSession that removes the session only when the request succeeded
DeleteSessionDoneOnlyOnSuccess(c, outcome) ==
    /\ c.kind = "deleteSession"
    /\ store' = IF outcome = "ok" THEN removeSession(store, c.id) ELSE store
    /\ calls' = DropCall(calls, c)
    /\ last' = [op |-> "deleteSessionDone", outcome |-> outcome, id |-> c.id,
                wasActive |-> store.activeSessionId = c.id,
                removedLog |-> c.id \in DOMAIN store.messagesBySession]
    /\ UNCHANGED <<input, media, loading, user, uuidCount>>
    /\ UNCHANGED voiceVars

\* deleteSession: finally branch, whatever the request did
DeleteSessionDone(c, outcome) ==
    /\ c.kind = "deleteSession"
    /\ store' = removeSession(store, c.id)
    /\ calls' = DropCall(calls, c)
    /\ last' = [op |-> "deleteSessionDone", outcome |-> outcome, id |-> c.id,
                wasActive |-> store.activeSessionId = c.id,
                removedLog |-> c.id \in DOMAIN store.messagesBySession]
    /\ UNCHANGED <<input, media, loading, user, uuidCount>>
    /\ UNCHANGED voiceVars

\* createSession up to the await ("New Chat" button); the closure holds the
\* sessions of the render the handler belongs to
CreateSession ==
    /\ NumCalls < MaxCalls
    /\ calls' = IF user # Null
                THEN AddCall(calls, [kind |-> "createSession", sessions |-> store.sessions,
                                     then |-> "none"])
                ELSE calls
    /\ last' = [op |-> "createSession"]
    /\ UNCHANGED <<store, input, media, loading, user, uuidCount>>
    /\ UNCHANGED voiceVars

(***************************************************************************)
(* Message Exchange                                                        *)
(***************************************************************************)
SendsInFlight ==
    LET cs == {c \in BagToSet(calls) :
                  c.kind = "chat" \/ (c.kind = "createSession" /\ c.then = "send")}
        RECURSIVE Count(_)
        Count(S) == IF S = {} THEN 0
                    ELSE LET c == CHOOSE x \in S : TRUE IN CopiesIn(c, calls) + Count(S \ {c})
    IN Count(cs)

\* sendMessage up to its first await: returns without a user; awaits
\* createSession when no session is active (before looking at the input);
\* otherwise returns if there is nothing to send, else appends the user turn,
\* clears the composer and issues the chat request.
SendMessageCall ==
    /\ NumCalls < MaxCalls
    /\ last' = [op |-> "sendMessage", input |-> input, media |-> media,
                activeSessionId |-> store.activeSessionId, user |-> user]
    /\ IF user = Null
       THEN UNCHANGED <<store, input, media, loading, calls>>
       ELSE IF store.activeSessionId = Null
       THEN /\ calls' = AddCall(calls, [kind |-> "createSession", sessions |-> store.sessions,
                                        then |-> "send", input |-> input, media |-> media,
                                        language |-> store.language])
            /\ UNCHANGED <<store, input, media, loading>>
       ELSE IF NothingToSend(input, media)
       THEN UNCHANGED <<store, input, media, loading, calls>>
       ELSE /\ store' = appendMessage(store, store.activeSessionId, UserMessage(input, media))
            /\ input' = <<>>
            /\ media' = <<>>
            /\ loading' = TRUE
            /\ calls' = AddCall(calls, ChatCall(store.activeSessionId, input, media,
                                                store.language, store.activeSessionId))
    /\ UNCHANGED <<user, uuidCount>>
    /\ UNCHANGED voiceVars

\* sendMessage called while no other send is unfinished and the logs have room
SendMessage ==
    /\ TotalMsgs(store) + 2 * SendsInFlight + 2 <= MaxTotalMsgs
    /\ SendMessageCall

\* createSession after the await (outcome "ok" with the returned session, or
\* a failure, which draws a local id), followed, when sendMessage awaited it,
\* by the rest of sendMessage on the input and attachments of its closure.
CreateSessionDone(c, outcome, data) ==
    /\ c.kind = "createSession"
    /\ outcome # "ok" => uuidCount < MaxUuid
    /\ uuidCount' = IF outcome = "ok" THEN uuidCount ELSE uuidCount + 1
    /\ LET st1 == IF outcome = "ok"
                  THEN CreateSessionOk(store, c.sessions, data)
                  ELSE CreateSessionFail(store, c.sessions, LocalId(uuidCount + 1))
           sessionId == st1.activeSessionId
       IN IF c.then = "send" /\ ~NothingToSend(c.input, c.media)
          THEN /\ store' = appendMessage(st1, sessionId, UserMessage(c.input, c.media))
               /\ loading' = TRUE
               /\ calls' = AddCall(DropCall(calls, c),
                                   ChatCall(sessionId, c.input, c.media, c.language, Null))
          ELSE /\ store' = st1
               /\ loading' = loading
               /\ calls' = DropCall(calls, c)
    /\ input' = <<>>
    /\ media' = <<>>
    /\ last' = [op |-> "createSessionDone", outcome |-> outcome, then |-> c.then,
                id |-> IF outcome = "ok" THEN data.id ELSE LocalId(uuidCount + 1),
                edited |-> c.then = "send" /\ (input # c.input \/ media # c.media)]
    /\ UNCHANGED user
    /\ UNCHANGED voiceVars

\* the try branch without the setTimeout
ChatOkWithoutRefresh(c, data) ==
    /\ c.kind = "chat"
    /\ LET st1 == appendMessage(store, c.session_id,
                      AssistantMessage(IF data.response = UndefinedText
                                       THEN NoResponseText ELSE data.response))
       IN store' = IF data.title # "" THEN updateSessionTitle(st1, c.session_id, data.title)
                   ELSE st1
    /\ calls' = DropCall(calls, c)
    /\ loading' = FALSE
    /\ last' = [op |-> "chatDone", outcome |-> "ok", id |-> c.session_id]
    /\ UNCHANGED <<input, media, user, uuidCount>>
    /\ UNCHANGED voiceVars

\* sendMessage after the chat request: try branch (2xx and a parsed body)
ChatOk(c, data) ==
    /\ c.kind = "chat"
    /\ LET st1 == appendMessage(store, c.session_id,
                      AssistantMessage(IF data.response = UndefinedText
                                       THEN NoResponseText ELSE data.response))
       IN store' = IF data.title # "" THEN updateSessionTitle(st1, c.session_id, data.title)
                   ELSE st1
    /\ calls' = AddCall(DropCall(calls, c),
                        [kind |-> "timer", activeSessionId |-> c.activeSessionId])
    /\ loading' = FALSE
    /\ last' = [op |-> "chatDone", outcome |-> "ok", id |-> c.session_id]
    /\ UNCHANGED <<input, media, user, uuidCount>>
    /\ UNCHANGED voiceVars

\* a catch branch that writes to the session active when the response arrives
ChatFailOnActiveSession(c, why) ==
    /\ c.kind = "chat"
    /\ store' = appendMessage(store, IF store.activeSessionId = Null THEN c.session_id
                                      ELSE store.activeSessionId,
                               AssistantMessage(NetworkErrorText))
    /\ calls' = DropCall(calls, c)
    /\ loading' = FALSE
    /\ last' = [op |-> "chatDone", outcome |-> why, id |-> c.session_id]
    /\ UNCHANGED <<input, media, user, uuidCount>>
    /\ UNCHANGED voiceVars

\* sendMessage after the chat request: catch branch
ChatFail(c, why) ==
    /\ c.kind = "chat"
    /\ store' = appendMessage(store, c.session_id, AssistantMessage(NetworkErrorText))
    /\ calls' = DropCall(calls, c)
    /\ loading' = FALSE
    /\ last' = [op |-> "chatDone", outcome |-> why, id |-> c.session_id]
    /\ UNCHANGED <<input, media, user, uuidCount>>
    /\ UNCHANGED voiceVars

\* the setTimeout callback of sendMessage: loadSessions of the render that
\* sendMessage was called in
RefreshTimer(c) ==
    /\ c.kind = "timer"
    /\ calls' = AddCall(DropCall(calls, c),
                        [kind |-> "loadSessions", activeSessionId |-> c.activeSessionId])
    /\ last' = [op |-> "refreshTimer"]
    /\ UNCHANGED <<store, input, media, loading, user, uuidCount>>
    /\ UNCHANGED voiceVars

NextChat ==
    \/ \E v \in InputValues : SetInput(v)
    \/ AuthStateChanged
    \/ \E c \in BagToSet(calls), data \in RemoteLists : LoadSessionsOk(c, data)
    \/ \E c \in BagToSet(calls), why \in FailureKinds : LoadSessionsFail(c, why)
    \/ \E id \in SessionIds(store.sessions) : SelectSession(id)
    \/ \E c \in BagToSet(calls), data \in RemoteDetails : LoadSessionMessagesOk(c, data)
    \/ \E c \in BagToSet(calls), why \in FailureKinds : LoadSessionMessagesFail(c, why)
    \/ \E id \in SessionIds(store.sessions) : DeleteSession(id)
    \/ \E c \in BagToSet(calls), outcome \in {"ok"} \cup FailureKinds : DeleteSessionDone(c, outcome)
    \/ CreateSession
    \/ SendMessage
    \/ \E c \in BagToSet(calls), data \in RemoteSessions : CreateSessionDone(c, "ok", data)
    \/ \E c \in BagToSet(calls), why \in FailureKinds :
           CreateSessionDone(c, why, [id |-> Null, title |-> Undefined, updated_at |-> Undefined])
    \/ \E c \in BagToSet(calls), data \in ChatResponses : ChatOk(c, data)
    \/ \E c \in BagToSet(calls), why \in FailureKinds : ChatFail(c, why)
    \/ \E c \in BagToSet(calls) : RefreshTimer(c)

SpecChat == Init /\ [][NextChat]_vars

TypeOKChat ==
    /\ store.activeSessionId \in {Null} \cup ServerIds \cup {LocalId(n) : n \in 1..MaxUuid}
    /\ loading \in BOOLEAN
    /\ uuidCount \in 0..MaxUuid
    /\ NumCalls <= MaxCalls

(***************************************************************************)
(* Claims on the session store and the message exchange (SpecChat)         *)
(***************************************************************************)
RECURSIVE IsSubseq(_, _)
IsSubseq(a, b) ==
    IF a = <<>> THEN TRUE
    ELSE IF b = <<>> THEN FALSE
    ELSE IF Head(a) = Head(b) THEN IsSubseq(Tail(a), Tail(b))
    ELSE IsSubseq(a, Tail(b))

\* C1: in every reachable state activeSessionId is null or the id of a
\* session in the session set.
C1_ActiveSessionExists ==
    \/ store.activeSessionId = Null
    \/ store.activeSessionId \in SessionIds(store.sessions)

\* C2: in every reachable state every key of messagesBySession is the id of
\* a session in the session set.
C2_MessageKeysAreSessions ==
    DOMAIN store.messagesBySession \subseteq SessionIds(store.sessions)

\* The log of id keeps all its messages, in their order, over the step.
LogPreserved(id) ==
    /\ id \in DOMAIN store'.messagesBySession
    /\ IsSubseq(store.messagesBySession[id], store'.messagesBySession[id])

\* C3 as stated: a message stays in its log, in the same relative order,
\* over every step except the deletion of its session; no other response
\* (loadSessions, loadSessionMessages, createSession, sendMessage) removes it.
C3_Original ==
    [][\A id \in DOMAIN store.messagesBySession :
          \/ LogPreserved(id)
          \/ last'.op = "deleteSessionDone" /\ last'.id = id]_vars

\* C3 amended: a message stays in its log, in the same relative order, over
\* every step except the deletion of its session, a loadSessionMessages
\* response for its session (which replaces the log by the server's list, or
\* by the empty list on failure) and a createSession result carrying its
\* session's id (which empties the log); loadSessions responses, sendMessage
\* and its continuations, and responses for other sessions only extend logs.
C3_MessagesKeptUnlessReplaced ==
    [][\A id \in DOMAIN store.messagesBySession :
          \/ LogPreserved(id)
          \/ /\ last'.op \in {"deleteSessionDone", "loadSessionMessages", "createSessionDone"}
             /\ last'.id = id]_vars

\* C3 witness: a chat reply was appended behind the user turn of a log.
C3_Witness ==
    /\ last.op = "chatDone"
    /\ Len(store.messagesBySession[last.id]) >= 2

\* C9: sendMessage with an empty trimmed input and no attachments changes
\* neither the store nor the composer and issues no request, also when no
\* session is active.
C9_EmptySendIsNoOp ==
    [][(SendMessage /\ NothingToSend(input, media))
          => UNCHANGED <<store, input, media, loading, calls>>]_vars

\* a chat request of sendMessage completes in this step
ChatCompleted ==
    \E c \in CallsOfKind("chat") : CopiesIn(c, calls') = CopiesIn(c, calls) - 1

TimersPending(bag) ==
    LET ts == {c \in BagToSet(bag) : c.kind = "timer"}
        RECURSIVE Count(_)
        Count(S) == IF S = {} THEN 0
                    ELSE LET c == CHOOSE x \in S : TRUE IN CopiesIn(c, bag) + Count(S \ {c})
    IN Count(ts)

\* C10 as stated: every completed chat request of sendMessage schedules a
\* deferred loadSessions refresh, whatever its outcome.
C10_Original ==
    [][ChatCompleted => TimersPending(calls') = TimersPending(calls) + 1]_vars

\* C10 amended: a completed chat request schedules the deferred refresh
\* exactly when it succeeded (2xx status and a body that parses); on a
\* non-2xx status, an unparsable body or a thrown request none is scheduled.
C10_RefreshOnlyOnSuccess ==
    [][ChatCompleted =>
          IF last'.outcome = "ok"
          THEN TimersPending(calls') = TimersPending(calls) + 1
          ELSE TimersPending(calls') = TimersPending(calls)]_vars

\* C10 witness: a successful chat request has completed and its refresh
\* timer is pending.
C10_Witness ==
    /\ last.op = "chatDone"
    /\ last.outcome = "ok"
    /\ TimersPending(calls) >= 1

\* a loadSessions call fails in this step (catch branch)
LoadSessionsFailed ==
    \E c \in BagToSet(calls), why \in FailureKinds : LoadSessionsFail(c, why)

\* C11: when a loadSessions call fails while the store's activeSessionId is
\* non-null, the session set and activeSessionId are left unchanged, whoever
\* called loadSessions (sign-in effect or deferred refresh of sendMessage).
C11_FailureKeepsActiveSession ==
    [][(LoadSessionsFailed /\ store.activeSessionId # Null)
          => /\ store'.sessions = store.sessions
             /\ store'.activeSessionId = store.activeSessionId]_vars

\* C12: when a loadSessions call fails while the store's activeSessionId is
\* null, the store ends with exactly one session, carrying a locally generated
\* id and the title "New chat", and activeSessionId is null.
C12_FailureWithoutActiveSynthesizes ==
    [][(LoadSessionsFailed /\ store.activeSessionId = Null)
          => /\ Len(store'.sessions) = 1
             /\ store'.sessions[1].title = NewChatTitle
             /\ store'.sessions[1].id \in {LocalId(n) : n \in 1..uuidCount'}
             /\ store'.activeSessionId = Null]_vars

\* C13: when deleteSession(id) of a signed-in user completes, whatever the
\* remote delete did (2xx, non-2xx, thrown), id is absent from the session set
\* and from messagesBySession, and activeSessionId is null if it was id and
\* is not id in any case.
C13_DeleteAlwaysRemoves ==
    [][\A c \in BagToSet(calls), outcome \in {"ok"} \cup FailureKinds :
          DeleteSessionDone(c, outcome)
             => /\ c.id \notin SessionIds(store'.sessions)
                /\ c.id \notin DOMAIN store'.messagesBySession
                /\ store'.activeSessionId # c.id
                /\ store.activeSessionId = c.id => store'.activeSessionId = Null]_vars

\* C13 witness: a deleteSession whose request failed has completed and has
\* removed a session that had a message log and was the active one.
C13_Witness ==
    /\ last.op = "deleteSessionDone"
    /\ last.outcome \in FailureKinds
    /\ last.removedLog
    /\ last.wasActive
    /\ last.id \notin SessionIds(store.sessions)
    /\ last.id \notin DOMAIN store.messagesBySession
    /\ store.activeSessionId = Null

C20_CreateMergesIntoStore ==
    [][\A c \in BagToSet(calls), data \in RemoteSessions :
          CreateSessionDone(c, "ok", data)
             => /\ store'.sessions = MergeSession(store.sessions, NormalizeSession(data))
                /\ store'.activeSessionId = data.id
                /\ LogOf(store'.messagesBySession, data.id) =
                       IF c.then = "send" /\ ~NothingToSend(c.input, c.media)
                       THEN <<UserMessage(c.input, c.media)>> ELSE <<>>
                /\ input' = <<>>
                /\ media' = <<>>]_vars

\* the rest of sendMessage behind the createSession call c it awaited
AfterCreate(st1, c) ==
    IF c.then = "send" /\ ~NothingToSend(c.input, c.media)
    THEN appendMessage(st1, st1.activeSessionId, UserMessage(c.input, c.media))
    ELSE st1

NoSessionData == [id |-> Null, title |-> Undefined, updated_at |-> Undefined]

\* a failed createSession leaves the store a successful one would have left
\* for a response carrying the fresh local id and no title
FailureAsSuccessWithFreshId ==
    \A c \in BagToSet(calls), why \in FailureKinds :
        CreateSessionDone(c, why, NoSessionData)
           => store' = AfterCreate(CreateSessionOk(store, c.sessions,
                                      [id |-> LocalId(uuidCount + 1), title |-> Undefined,
                                       updated_at |-> Undefined]), c)

\* C21: when a createSession request fails, the client state is the one a
\* successful response with a fresh id and no title would have produced: a
\* session with a locally generated id and the title "New chat" is prepended
\* to the store's session set, it is active, its log is empty (or holds only
\* the user turn of the sendMessage that awaited createSession), and input
\* and attachments are empty.
C21_FailureEqualsLocalSuccess ==
    [][/\ FailureAsSuccessWithFreshId
       /\ \A c \in BagToSet(calls), why \in FailureKinds :
             CreateSessionDone(c, why, NoSessionData)
                => LET local == LocalId(uuidCount + 1) IN
                   /\ store'.sessions =
                          <<[id |-> local, title |-> NewChatTitle, updated_at |-> Undefined]>>
                             \o store.sessions
                   /\ store'.activeSessionId = local
                   /\ LogOf(store'.messagesBySession, local) =
                          IF c.then = "send" /\ ~NothingToSend(c.input, c.media)
                          THEN <<UserMessage(c.input, c.media)>> ELSE <<>>
                   /\ input' = <<>>
                   /\ media' = <<>>]_vars

(***************************************************************************)
(* The composer and the message exchange: a signed-in user with one        *)
(* session selected types, attaches files, picks a language, sends and     *)
(* deletes, while the responses arrive in any order                        *)
(***************************************************************************)
\* the state after sign-in, a session list of one untitled session, and the
\* selection of that session with its empty log loaded
InitCompose ==
    /\ store = [sessions |-> <<[id |-> "s1", title |-> NewChatTitle, updated_at |-> Undefined]>>,
                activeSessionId |-> "s1",
                messagesBySession |-> [k \in {"s1"} |-> <<>>],
                language |-> "auto"]
    /\ input = <<>>
    /\ media = <<>>
    /\ loading = FALSE
    /\ user = Uid
    /\ calls = EmptyBag
    /\ uuidCount = 0
    /\ recording = FALSE
    /\ voiceBusy = FALSE
    /\ voiceError = ""
    /\ speechRef = NoRef
    /\ mediaRecorderRef = NoRef
    /\ mediaStreamRef = NoRef
    /\ audioChunks = 0
    /\ recs = <<>>
    /\ captures = <<>>
    /\ voiceCalls = EmptyBag
    /\ speechCtor = "works"
    /\ last = [op |-> "loadSessionMessages", outcome |-> "ok", id |-> "s1"]

NextCompose ==
    \/ \E v \in InputValues : SetInput(v)
    \/ \E att \in AttachmentPool : OnPickFile(att)
    \/ \E idx \in 1..Len(media) : RemoveMedia(idx)
    \/ \E lang \in LangChoices : SelectLanguage(lang)
    \/ SendMessage
    \/ \E c \in BagToSet(calls), data \in RemoteSessions : CreateSessionDone(c, "ok", data)
    \/ \E c \in BagToSet(calls), why \in FailureKinds :
           CreateSessionDone(c, why, [id |-> Null, title |-> Undefined, updated_at |-> Undefined])
    \/ \E id \in SessionIds(store.sessions) : DeleteSession(id)
    \/ \E c \in BagToSet(calls), outcome \in {"ok"} \cup FailureKinds : DeleteSessionDone(c, outcome)
    \/ \E c \in BagToSet(calls), data \in ChatResponses : ChatOk(c, data)
    \/ \E c \in BagToSet(calls), why \in FailureKinds : ChatFail(c, why)
    \/ \E c \in BagToSet(calls) : RefreshTimer(c)
    \/ \E c \in BagToSet(calls), data \in RemoteLists : LoadSessionsOk(c, data)
    \/ \E c \in BagToSet(calls), why \in FailureKinds : LoadSessionsFail(c, why)

SpecCompose == InitCompose /\ [][NextCompose]_vars

\* the state SpecCompose starts in, as a state of SpecChat
ComposeStartReached ==
    /\ store = [sessions |-> <<[id |-> "s1", title |-> NewChatTitle, updated_at |-> Undefined]>>,
                activeSessionId |-> "s1",
                messagesBySession |-> [k \in {"s1"} |-> <<>>],
                language |-> "auto"]
    /\ input = <<>> /\ media = <<>> /\ loading = FALSE /\ user = Uid
    /\ calls = EmptyBag /\ uuidCount = 0
    /\ last = [op |-> "loadSessionMessages", outcome |-> "ok", id |-> "s1"]

(***************************************************************************)
(* Remote Session Sync on its own: sign-in, list and detail loads and      *)
(* creation over two remote sessions, no deletion, no message exchange     *)
(***************************************************************************)
SyncRemoteSessions ==
    RemoteSessions \cup {[id |-> "s2", title |-> "T2", updated_at |-> "t2"]}

SyncRemoteLists ==
    {list \in UNION {[1..n -> SyncRemoteSessions] : n \in 0..MaxSyncLen} : DistinctIds(list)}

SyncRemoteDetails == [title : {"", "T3"}, messages : RemoteMessageLists]

NextSync ==
    \/ AuthStateChanged
    \/ \E c \in BagToSet(calls), data \in SyncRemoteLists : LoadSessionsOk(c, data)
    \/ \E c \in BagToSet(calls), why \in FailureKinds : LoadSessionsFail(c, why)
    \/ \E id \in SessionIds(store.sessions) : SelectSession(id)
    \/ \E c \in BagToSet(calls), data \in SyncRemoteDetails : LoadSessionMessagesOk(c, data)
    \/ \E c \in BagToSet(calls), why \in FailureKinds : LoadSessionMessagesFail(c, why)
    \/ CreateSession
    \/ \E c \in BagToSet(calls), data \in RemoteSessions : CreateSessionDone(c, "ok", data)
    \/ \E c \in BagToSet(calls), why \in FailureKinds : CreateSessionDone(c, why, NoSessionData)

SpecSync == Init /\ [][NextSync]_vars

\* C22: a successful loadSessions replaces the session set by the remote
\* records in remote order, each with its id and updated_at and with the
\* title "New chat" where the record has none, and changes neither
\* messagesBySession nor activeSessionId.
C22_LoadReplacesSessionSet ==
    [][\A c \in BagToSet(calls), data \in SyncRemoteLists :
          LoadSessionsOk(c, data)
             => /\ Len(store'.sessions) = Len(data)
                /\ \A i \in 1..Len(data) :
                      /\ store'.sessions[i].id = data[i].id
                      /\ store'.sessions[i].updated_at = data[i].updated_at
                      /\ store'.sessions[i].title =
                             IF data[i].title = Undefined THEN NewChatTitle ELSE data[i].title
                /\ store'.messagesBySession = store.messagesBySession
                /\ store'.activeSessionId = store.activeSessionId]_vars

\* C22 witness: a list of two remote sessions, the second without a title,
\* has replaced the set while a session was active and a log was held.
C22_Witness ==
    /\ last.op = "loadSessions"
    /\ last.outcome = "ok"
    /\ Len(store.sessions) = 2
    /\ store.sessions[1].id = "s2"
    /\ store.sessions[2].title = NewChatTitle
    /\ store.activeSessionId # Null
    /\ \E k \in DOMAIN store.messagesBySession : store.messagesBySession[k] # <<>>

\* the sessions of both stores agree outside the session id
OtherSessionsSame(id) ==
    /\ Len(store'.sessions) = Len(store.sessions)
    /\ \A i \in 1..Len(store.sessions) :
          IF store.sessions[i].id = id
          THEN /\ store'.sessions[i].id = id
               /\ store'.sessions[i].updated_at = store.sessions[i].updated_at
          ELSE store'.sessions[i] = store.sessions[i]

OtherLogsSame(id) ==
    /\ DOMAIN store'.messagesBySession = (DOMAIN store.messagesBySession) \cup {id}
    /\ \A k \in (DOMAIN store.messagesBySession) \ {id} :
          store'.messagesBySession[k] = store.messagesBySession[k]

\* C23: a successful loadSessionMessages(sessionId) replaces that session's
\* log by the server's messages (role and text, in server order) and sets
\* the session's title to the server title when there is one; a failed one
\* sets the log to empty; in both cases no other log, no other session and
\* not activeSessionId changes.
C23_LoadMessagesReplacesOneLog ==
    [][/\ \A c \in BagToSet(calls), data \in SyncRemoteDetails :
             LoadSessionMessagesOk(c, data)
                => LET log == LogOf(store'.messagesBySession, c.sessionId) IN
                   /\ Len(log) = Len(data.messages)
                   /\ \A i \in 1..Len(log) :
                         /\ log[i].role = data.messages[i].role
                         /\ log[i].text = data.messages[i].text
                   /\ TitleOf(store', c.sessionId) \subseteq
                          (IF data.title # "" THEN {data.title}
                           ELSE TitleOf(store, c.sessionId))
                   /\ OtherSessionsSame(c.sessionId)
                   /\ OtherLogsSame(c.sessionId)
                   /\ store'.activeSessionId = store.activeSessionId
       /\ \A c \in BagToSet(calls), why \in FailureKinds :
             LoadSessionMessagesFail(c, why)
                => /\ OtherLogsSame(c.sessionId)
                   /\ store'.messagesBySession[c.sessionId] = <<>>
                   /\ store'.sessions = store.sessions
                   /\ store'.activeSessionId = store.activeSessionId]_vars

\* C23 witness: a detail response with a title and two messages has arrived
\* for a session that is not the active one, next to another session with a
\* different title.
C23_Witness ==
    /\ last.op = "loadSessionMessages"
    /\ last.outcome = "ok"
    /\ Len(LogOf(store.messagesBySession, last.id)) = 2
    /\ TitleOf(store, last.id) = {"T3"}
    /\ store.activeSessionId \notin {Null, last.id}
    /\ Len(store.sessions) = 2

(***************************************************************************)
(* Claims on sendMessage (SpecCompose)                                     *)
(***************************************************************************)
\* log ends with the user turn of chat request c followed by an assistant
\* turn with the given text
EndsWithExchange(log, c, text) ==
    /\ Len(log) >= 2
    /\ log[Len(log) - 1].role = "user"
    /\ log[Len(log) - 1].text = c.message
    /\ WireMedia(log[Len(log) - 1].media) = c.media
    /\ log[Len(log)] = AssistantMessage(text)

\* C17: when the chat request of a sendMessage call succeeds, the session's
\* log ends with the user message of that call followed by an assistant
\* message carrying the returned response ("No response." if absent), and a
\* title carried by the response is the session's title.
C17_SuccessAppendsExchange ==
    [][\A c \in BagToSet(calls), data \in ChatResponses :
          ChatOk(c, data)
             => /\ c.session_id \in DOMAIN store'.messagesBySession
                /\ EndsWithExchange(store'.messagesBySession[c.session_id], c,
                                    IF data.response = UndefinedText
                                    THEN NoResponseText ELSE data.response)
                /\ data.title # "" => TitleOf(store', c.session_id) = {data.title}]_vars

\* C18: when the chat request of a sendMessage call fails (thrown request,
\* non-2xx status, unparsable body), exactly one assistant message with the
\* text "Network/server error. Try again." is appended behind the user
\* message of that call and loading is cleared.
C18_FailureAppendsErrorTurn ==
    [][\A c \in BagToSet(calls), why \in FailureKinds :
          ChatFail(c, why)
             => /\ c.session_id \in DOMAIN store'.messagesBySession
                /\ EndsWithExchange(store'.messagesBySession[c.session_id], c, NetworkErrorText)
                /\ Len(store'.messagesBySession[c.session_id])
                      = Len(LogOf(store.messagesBySession, c.session_id)) + 1
                /\ loading' = FALSE]_vars

\* the chat requests issued in this step
ChatIssued == {c \in BagToSet(calls') : c.kind = "chat" /\ CopiesIn(c, calls') > CopiesIn(c, calls)}

\* the step issues a chat request for the composer contents inp, med captured
\* when sendMessage was called: the user turn with them is at the end of the
\* session's log, the composer is empty and the request carries them
IssuesChatFor(inp, med) ==
    /\ input' = <<>>
    /\ media' = <<>>
    /\ \A c \in ChatIssued :
           /\ c.message = UserText(inp)
           /\ c.media = WireMedia(med)
           /\ c.session_id \in DOMAIN store'.messagesBySession
           /\ LET log == store'.messagesBySession[c.session_id]
              IN /\ log # <<>>
                 /\ log[Len(log)] = UserMessage(inp, med)

\* C19: at the step of sendMessage that issues the chat request (the call
\* itself, or the continuation behind the createSession it awaited) the
\* user turn is in the store and input and attachments are empty; the turn
\* and the request carry the text and attachments sendMessage was called with;
\* the completion of the request, whatever its outcome, leaves input and
\* attachments as they are.
C19_OptimisticAppendAndClear ==
    [][/\ (SendMessage /\ ChatIssued # {}) => IssuesChatFor(input, media)
       /\ \A c \in BagToSet(calls) :
             (c.kind = "createSession" /\ CopiesIn(c, calls') < CopiesIn(c, calls)
                 /\ ChatIssued # {})
                => IssuesChatFor(c.input, c.media)
       /\ ChatCompleted => UNCHANGED <<input, media>>]_vars

\* C19 witness: a sendMessage that awaited createSession has issued its chat
\* request with an attachment while the composer had been edited meanwhile.
C19_Witness ==
    /\ last.op = "createSessionDone"
    /\ last.then = "send"
    /\ last.edited
    /\ \E c \in CallsOfKind("chat") : c.media # <<>>
    /\ input = <<>>
    /\ media = <<>>

(***************************************************************************)
(* Sending on its own: a signed-in user, with or without an active         *)
(* session, sends what the composer holds; attachments of every kind       *)
(***************************************************************************)
SendAttachments == AttachmentPool \cup {[kind |-> "video", content |-> "b64v"]}

SendMedia == UNION {[1..n -> SendAttachments] : n \in 0..MaxSendMedia}

InitSend ==
    /\ \E a \in {Null, "s1"} :
          store = [sessions |-> <<[id |-> "s1", title |-> NewChatTitle,
                                   updated_at |-> Undefined]>>,
                   activeSessionId |-> a,
                   messagesBySession |-> [k \in {"s1"} |-> <<>>],
                   language |-> "auto"]
    /\ input \in InputValues
    /\ media \in SendMedia
    /\ loading = FALSE
    /\ user = Uid
    /\ calls = EmptyBag
    /\ uuidCount = 0
    /\ recording = FALSE
    /\ voiceBusy = FALSE
    /\ voiceError = ""
    /\ speechRef = NoRef
    /\ mediaRecorderRef = NoRef
    /\ mediaStreamRef = NoRef
    /\ audioChunks = 0
    /\ recs = <<>>
    /\ captures = <<>>
    /\ voiceCalls = EmptyBag
    /\ speechCtor = "works"
    /\ last = [op |-> "onPickFile"]

NextSend ==
    \/ \E lang \in LangChoices : SelectLanguage(lang)
    \/ SendMessage
    \/ \E c \in BagToSet(calls), data \in RemoteSessions : CreateSessionDone(c, "ok", data)
    \/ \E c \in BagToSet(calls), why \in FailureKinds : CreateSessionDone(c, why, NoSessionData)
    \/ \E c \in BagToSet(calls), data \in ChatResponses : ChatOk(c, data)
    \/ \E c \in BagToSet(calls), why \in FailureKinds : ChatFail(c, why)
    \/ \E c \in BagToSet(calls) : RefreshTimer(c)
    \/ \E c \in BagToSet(calls), data \in RemoteLists : LoadSessionsOk(c, data)
    \/ \E c \in BagToSet(calls), why \in FailureKinds : LoadSessionsFail(c, why)

SpecSend == InitSend /\ [][NextSend]_vars

\* the chat request c carries the language lang and the attachments med
CarriesSnapshot(c, lang, med) ==
    /\ c.language_lock = (IF lang = "auto" THEN Null ELSE lang)
    /\ Len(c.media) = Len(med)
    /\ \A i \in 1..Len(med) :
          /\ c.media[i].content = med[i].content
          /\ c.media[i].kind = (IF med[i].kind = "pdf" THEN "text" ELSE med[i].kind)

\* C27: the chat request of a sendMessage call carries language_lock = null
\* exactly when the UI language the call was made with is "auto" and that
\* language code otherwise, and carries every attachment the call was made
\* with, in order, with its content and its kind, "pdf" being sent as "text".
C27_RequestCarriesLockAndMedia ==
    [][/\ SendMessage => \A c \in ChatIssued : CarriesSnapshot(c, store.language, media)
       /\ \A c0 \in BagToSet(calls) :
             (c0.kind = "createSession" /\ CopiesIn(c0, calls') < CopiesIn(c0, calls))
                => \A c \in ChatIssued : CarriesSnapshot(c, c0.language, c0.media)]_vars

\* C27 witness: a chat request is in flight with a language lock and two
\* attachments, an image first and a document second, sent as "text".
C27_Witness ==
    \E c \in CallsOfKind("chat") :
        /\ c.language_lock = "hi-IN"
        /\ Len(c.media) = 2
        /\ c.media[1].kind = "image"
        /\ c.media[2].kind = "text"

(***************************************************************************)
(* The store operations on their own: every operation of useChatStore      *)
(* applied, in any order, to any store state                               *)
(***************************************************************************)
StoreTitles == {NewChatTitle, "T1"}

StoreSessionItems ==
    {[id |-> i, title |-> t, updated_at |-> IF i = "s1" THEN Undefined ELSE "t2"] :
        i \in ServerIds, t \in StoreTitles}

StoreSessionLists ==
    {list \in UNION {[1..n -> StoreSessionItems] : n \in 0..MaxStoreSessions} :
        DistinctIds(list)}

StoreMessages == {[role |-> "user", text |-> <<"a">>, media |-> <<>>],
                  AssistantMessage(ReplyText)}

StoreInitLogs == {<<>>} \cup {<<m>> : m \in StoreMessages}

StoreStates ==
    {[sessions |-> ss, activeSessionId |-> a, messagesBySession |-> m, language |-> "auto"] :
        ss \in StoreSessionLists, a \in {Null} \cup ServerIds,
        m \in UNION {[K -> StoreInitLogs] : K \in SUBSET ServerIds}}

InitStoreOps ==
    /\ store \in StoreStates
    /\ input = <<>>
    /\ media = <<>>
    /\ loading = FALSE
    /\ user = Null
    /\ calls = EmptyBag
    /\ uuidCount = 0
    /\ recording = FALSE
    /\ voiceBusy = FALSE
    /\ voiceError = ""
    /\ speechRef = NoRef
    /\ mediaRecorderRef = NoRef
    /\ mediaStreamRef = NoRef
    /\ audioChunks = 0
    /\ recs = <<>>
    /\ captures = <<>>
    /\ voiceCalls = EmptyBag
    /\ speechCtor = "works"
    /\ last = [op |-> "create"]

StoreFrame ==
    /\ UNCHANGED <<input, media, loading, user, calls, uuidCount>>
    /\ UNCHANGED voiceVars

StoreSetLanguage(lang) ==
    /\ store' = setLanguage(store, lang)
    /\ last' = [op |-> "setLanguage"]
    /\ StoreFrame

StoreSetSessions(list) ==
    /\ store' = setSessions(store, list)
    /\ last' = [op |-> "setSessions"]
    /\ StoreFrame

StoreSetActiveSession(id) ==
    /\ store' = setActiveSession(store, id)
    /\ last' = [op |-> "setActiveSession"]
    /\ StoreFrame

StoreSetMessages(id, messages) ==
    /\ store' = setMessages(store, id, messages)
    /\ last' = [op |-> "setMessages", id |-> id, wasPresent |-> id \in DOMAIN store.messagesBySession]
    /\ StoreFrame

\* appendMessage; last keeps, over a run of consecutive appendMessage calls,
\* the logs before the run and the messages appended to each session since
StoreAppendMessage(id, message) ==
    /\ Len(LogOf(store.messagesBySession, id)) < MaxStoreLog
    /\ store' = appendMessage(store, id, message)
    /\ last' = LET inRun == last.op = "appendMessage"
                   prior == IF inRun THEN last.prior ELSE store.messagesBySession
                   sofar == IF inRun THEN last.appended ELSE [k \in {} |-> <<>>]
               IN [op |-> "appendMessage", id |-> id, prior |-> prior,
                   appended |-> [k \in (DOMAIN sofar) \cup {id} |->
                                    IF k = id THEN Append(LogOf(sofar, id), message)
                                    ELSE sofar[k]]]
    /\ StoreFrame

StoreClearSessionMessages(id) ==
    /\ store' = clearSessionMessages(store, id)
    /\ last' = [op |-> "clearSessionMessages", id |-> id,
                again |-> last.op = "clearSessionMessages" /\ last.id = id]
    /\ StoreFrame

StoreRemoveSession(id) ==
    /\ store' = removeSession(store, id)
    /\ last' = [op |-> "removeSession", id |-> id, wasActive |-> store.activeSessionId = id]
    /\ StoreFrame

StoreUpdateSessionTitle(id, title) ==
    /\ store' = updateSessionTitle(store, id, title)
    /\ last' = [op |-> "updateSessionTitle", id |-> id, before |-> TitleOf(store, id)]
    /\ StoreFrame

NextStoreOps ==
    \/ \E lang \in LangChoices : StoreSetLanguage(lang)
    \/ \E list \in StoreSessionLists : StoreSetSessions(list)
    \/ \E id \in {Null} \cup ServerIds : StoreSetActiveSession(id)
    \/ \E id \in ServerIds, messages \in StoreInitLogs : StoreSetMessages(id, messages)
    \/ \E id \in ServerIds, message \in StoreMessages : StoreAppendMessage(id, message)
    \/ \E id \in ServerIds : StoreClearSessionMessages(id)
    \/ \E id \in ServerIds : StoreRemoveSession(id)
    \/ \E id \in ServerIds, title \in StoreTitles : StoreUpdateSessionTitle(id, title)

SpecStoreOps == InitStoreOps /\ [][NextStoreOps]_vars

\* C15: after any run of appendMessage calls, on one session or interleaved
\* over several, the log of each session is its log before the run followed
\* by the messages appended to it, in call order, and the logs of sessions
\* that were not appended to are as before.
C15_AppendKeepsCallOrder ==
    last.op = "appendMessage" =>
        /\ DOMAIN store.messagesBySession = (DOMAIN last.prior) \cup (DOMAIN last.appended)
        /\ \A id \in DOMAIN store.messagesBySession :
               store.messagesBySession[id] = LogOf(last.prior, id) \o LogOf(last.appended, id)

\* C15 witness: a run of appendMessage calls has appended two messages to a
\* session and, in between or around, a message to another session.
C15_Witness ==
    /\ last.op = "appendMessage"
    /\ \E id \in DOMAIN last.appended : Len(last.appended[id]) = 2
    /\ Cardinality(DOMAIN last.appended) = 2

\* C16: for any store state and any id, removeSession(id) removes id from the
\* session set and from messagesBySession, sets activeSessionId to null if it
\* was id and leaves it otherwise, and leaves every other session (and their
\* order), every other log and the language as they were.
C16_RemoveSessionFrame ==
    [][\A id \in ServerIds :
          StoreRemoveSession(id)
             => /\ id \notin SessionIds(store'.sessions)
                /\ id \notin DOMAIN store'.messagesBySession
                /\ store'.activeSessionId =
                       IF store.activeSessionId = id THEN Null ELSE store.activeSessionId
                /\ IsSubseq(store'.sessions, store.sessions)
                /\ Len(store'.sessions) =
                       Cardinality({i \in 1..Len(store.sessions) : store.sessions[i].id # id})
                /\ DOMAIN store'.messagesBySession = (DOMAIN store.messagesBySession) \ {id}
                /\ \A k \in DOMAIN store'.messagesBySession :
                       store'.messagesBySession[k] = store.messagesBySession[k]
                /\ store'.language = store.language]_vars

\* C16 witness: removeSession was applied to the active session and the store
\* still holds another session with a non-empty log.
C16_Witness ==
    /\ last.op = "removeSession"
    /\ last.wasActive
    /\ store.activeSessionId = Null
    /\ \E k \in DOMAIN store.messagesBySession :
           /\ k \in SessionIds(store.sessions)
           /\ store.messagesBySession[k] # <<>>

\* only the log of id differs between the store before and after the step
OnlyLogChanges(id) ==
    /\ OtherLogsSame(id)
    /\ store'.sessions = store.sessions
    /\ store'.activeSessionId = store.activeSessionId
    /\ store'.language = store.language

\* C28: setMessages(id, m) and appendMessage(id, x) on an id without entry
\* in messagesBySession give id the log m, respectively the one-element log
\* [x], and leave every other entry as it was.
C28_MissingKeyIsEmptyLog ==
    [][/\ \A id \in ServerIds, m \in StoreInitLogs :
             (StoreSetMessages(id, m) /\ id \notin DOMAIN store.messagesBySession)
                => /\ OnlyLogChanges(id)
                   /\ store'.messagesBySession[id] = m
       /\ \A id \in ServerIds, x \in StoreMessages :
             (StoreAppendMessage(id, x) /\ id \notin DOMAIN store.messagesBySession)
                => /\ OnlyLogChanges(id)
                   /\ store'.messagesBySession[id] = <<x>>]_vars

\* C28 witness: a message was appended to an id that had no entry, next to
\* another entry with a non-empty log.
C28_Witness ==
    /\ last.op = "appendMessage"
    /\ last.id \notin DOMAIN last.prior
    /\ Len(last.appended[last.id]) = 1
    /\ DOMAIN last.appended = {last.id}
    /\ \E k \in DOMAIN last.prior : last.prior[k] # <<>> /\ store.messagesBySession[k] # <<>>

\* C29: clearSessionMessages(id) sets the log of id to empty and changes
\* neither the session set, activeSessionId nor another log; applied a
\* second time in a row it leaves the store as the first application left it.
C29_ClearIsIdempotent ==
    [][\A id \in ServerIds :
          StoreClearSessionMessages(id)
             => /\ OnlyLogChanges(id)
                /\ store'.messagesBySession[id] = <<>>
                /\ clearSessionMessages(store', id) = store'
                /\ (last.op = "clearSessionMessages" /\ last.id = id) => store' = store]_vars

\* C29 witness: clearSessionMessages was applied twice in a row to a session
\* while another session holds a non-empty log.
C29_Witness ==
    /\ last.op = "clearSessionMessages"
    /\ last.again
    /\ store.messagesBySession[last.id] = <<>>
    /\ \E k \in DOMAIN store.messagesBySession : store.messagesBySession[k] # <<>>

\* C30: updateSessionTitle(id, title) changes only the title of the session
\* with that id: the set keeps its length and order, the other fields of that
\* session and every other session are as before, logs, activeSessionId and
\* language are untouched, and without a session of that id the store is
\* unchanged.
C30_UpdateTitleFrame ==
    [][\A id \in ServerIds, title \in StoreTitles :
          StoreUpdateSessionTitle(id, title)
             => /\ OtherSessionsSame(id)
                /\ TitleOf(store', id) \subseteq {title}
                /\ store'.messagesBySession = store.messagesBySession
                /\ store'.activeSessionId = store.activeSessionId
                /\ store'.language = store.language
                /\ id \notin SessionIds(store.sessions) => store' = store]_vars

\* C30 witness: the second of two sessions, the one with an updated_at, got a
\* new title while the first kept a different one.
C30_Witness ==
    /\ last.op = "updateSessionTitle"
    /\ last.before = {NewChatTitle}
    /\ Len(store.sessions) = 2
    /\ store.sessions[2] = [id |-> last.id, title |-> "T1", updated_at |-> "t2"]
    /\ store.sessions[1].title = NewChatTitle

(***************************************************************************)
(* Voice capture                                                           *)
(***************************************************************************)
FallbackNotice == "Browser voice service unavailable. Falling back to in-app recording."
MicUnavailable == "Microphone access denied or unavailable."
TranscriptionFailed == "Voice transcription failed."
RecognitionErrors == {"network", "no-speech"}
RecognitionErrorMessage(err) ==
    IF err = "no-speech" THEN "Voice recognition error: no-speech"
    ELSE "Voice recognition error: network"

\* what the recogniser / the transcription endpoint may return
Transcripts == {<<" ">>, <<"v">>}
SttBodies == [text : {<<>>, <<"v">>}, detected_lang : {Undefined, "Hi-IN", "fr", "ta"}]
SttFailures == {"http-detail", "http", "throw"}
SttErrorMessage(why) ==
    IF why = "http-detail" THEN "backend detail"
    ELSE IF why = "http" THEN TranscriptionFailed
    ELSE "Failed to fetch"

\* (code || "").trim().toLowerCase() on the language codes of the model
LowerTrim(code) ==
    IF code = "Hi-IN" THEN "hi-in"
    ELSE IF code = Undefined THEN ""
    ELSE code

LanguageTable ==
    [k \in {"en", "en-in", "hi", "hi-in", "ta", "ta-in", "bn", "bn-in",
            "te", "te-in", "mr", "mr-in"} |->
        IF k \in {"en", "en-in"} THEN "en-IN"
        ELSE IF k \in {"hi", "hi-in"} THEN "hi-IN"
        ELSE IF k \in {"ta", "ta-in"} THEN "ta-IN"
        ELSE IF k \in {"bn", "bn-in"} THEN "bn-IN"
        ELSE IF k \in {"te", "te-in"} THEN "te-IN"
        ELSE "mr-IN"]

normalizeUiLanguage(code) ==
    LET lowered == LowerTrim(code) IN
    IF lowered = "" THEN "en-IN"
    ELSE IF lowered = "auto" THEN "auto"
    ELSE IF lowered \in DOMAIN LanguageTable THEN LanguageTable[lowered]
    ELSE code

\* setInput((prev) => (prev ? `${prev} ${text}` : text))
JoinInput(prev, text) == IF prev # <<>> THEN prev \o <<" ">> \o text ELSE text

SpeechSupport == {"absent", "works", "ctorThrows", "startThrows"}

InitVoice ==
    /\ InitComponent
    /\ speechCtor \in SpeechSupport

PendingVoice(kind) == {c \in BagToSet(voiceCalls) : c.kind = kind}

LiveRecs == {r \in 1..Len(recs) : recs[r] = "started"}

LiveStreams == {k \in 1..Len(captures) : captures[k].stream}

ActiveRecorders == {k \in 1..Len(captures) : captures[k].recorder # "inactive"}

\* Idle: no capture flag set, nothing registered, nothing held, nothing pending
VoiceIdle ==
    /\ ~recording
    /\ ~voiceBusy
    /\ speechRef = NoRef
    /\ mediaRecorderRef = NoRef
    /\ mediaStreamRef = NoRef
    /\ voiceCalls = EmptyBag
    /\ LiveRecs = {}
    /\ LiveStreams = {}
    /\ ActiveRecorders = {}

\* mic button onClick while not recording: startVoiceRecording.  The button
\* is disabled while voiceBusy.  speechCtor is the browser's recognition
\* support: absent; works; new SpeechCtor() throws; or rec.start() throws,
\* after the handle and the flags were set (both inside the try block).
StartVoiceRecording ==
    /\ ~voiceBusy
    /\ ~recording
    /\ speechCtor \in {"works", "startThrows"} => Len(recs) < MaxRecs
    /\ speechCtor # "works" => Len(captures) + BagCardinality(voiceCalls) < MaxCaptures
    /\ voiceError' = ""
    /\ IF speechCtor = "works"
       THEN /\ recs' = Append(recs, "started")
            /\ speechRef' = Len(recs) + 1
            /\ recording' = TRUE
            /\ voiceBusy' = TRUE
            /\ UNCHANGED voiceCalls
       ELSE IF speechCtor = "startThrows"
       THEN /\ recs' = Append(recs, "new")
            /\ speechRef' = Len(recs) + 1
            /\ recording' = TRUE
            /\ voiceBusy' = TRUE
            /\ voiceCalls' = voiceCalls (+) SetToBag({[kind |-> "getUserMedia",
                                 origin |-> "start", fromIdle |-> VoiceIdle]})
       ELSE /\ voiceCalls' = voiceCalls (+) SetToBag({[kind |-> "getUserMedia",
                                 origin |-> "start", fromIdle |-> VoiceIdle]})
            /\ UNCHANGED <<recs, speechRef, recording, voiceBusy>>
    /\ last' = [op |-> "startVoiceRecording", fromIdle |-> VoiceIdle,
                live |-> speechCtor = "works"]
    /\ UNCHANGED <<mediaRecorderRef, mediaStreamRef, audioChunks, captures, speechCtor>>
    /\ UNCHANGED chatVars

\* rec.onresult
RecOnResult(r, transcript) ==
    /\ recs[r] = "started"
    /\ Len(JoinInput(input, Trim(transcript))) <= MaxInputLen
    /\ input' = IF Trim(transcript) # <<>> THEN JoinInput(input, Trim(transcript)) ELSE input
    /\ last' = [op |-> "onresult", rec |-> r]
    /\ UNCHANGED <<store, media, loading, user, calls, uuidCount>>
    /\ UNCHANGED voiceVars

\* startBackendRecordingCapture after getUserMedia resolved
GetUserMediaOk(c) ==
    /\ c.kind = "getUserMedia"
    /\ Len(captures) < MaxCaptures
    /\ captures' = Append(captures, [stream |-> TRUE, recorder |-> "recording"])
    /\ mediaStreamRef' = Len(captures) + 1
    /\ audioChunks' = 0
    /\ mediaRecorderRef' = Len(captures) + 1
    /\ recording' = TRUE
    /\ voiceBusy' = FALSE
    /\ voiceCalls' = voiceCalls (-) SetToBag({c})
    /\ last' = [op |-> "getUserMedia", outcome |-> "ok", origin |-> c.origin,
                fromIdle |-> c.fromIdle]
    /\ UNCHANGED <<voiceError, speechRef, recs, speechCtor>>
    /\ UNCHANGED chatVars

\* getUserMedia rejected: the catch of startVoiceRecording (origin "start")
\* or the .catch of the fallback in rec.onerror (origin "fallback")
GetUserMediaFail(c) ==
    /\ c.kind = "getUserMedia"
    /\ voiceError' = MicUnavailable
    /\ voiceBusy' = IF c.origin = "fallback" THEN FALSE ELSE voiceBusy
    /\ voiceCalls' = voiceCalls (-) SetToBag({c})
    /\ last' = [op |-> "getUserMedia", outcome |-> "denied", origin |-> c.origin,
                fromIdle |-> c.fromIdle]
    /\ UNCHANGED <<recording, speechRef, mediaRecorderRef, mediaStreamRef, audioChunks,
                   recs, captures, speechCtor>>
    /\ UNCHANGED chatVars

\* rec.onerror that reports "network" like any other error, without fallback
RecOnErrorWithoutFallback(r, err) ==
    /\ recs[r] = "started"
    /\ recs' = [recs EXCEPT ![r] = "errored"]
    /\ voiceError' = RecognitionErrorMessage(err)
    /\ last' = [op |-> "onerror", rec |-> r, error |-> err]
    /\ UNCHANGED <<speechRef, recording, voiceBusy, voiceCalls>>
    /\ UNCHANGED <<mediaRecorderRef, mediaStreamRef, audioChunks, captures, speechCtor>>
    /\ UNCHANGED chatVars

\* rec.onerror
RecOnError(r, err) ==
    /\ recs[r] = "started"
    /\ recs' = [recs EXCEPT ![r] = "errored"]
    /\ IF err = "network"
       THEN /\ voiceError' = FallbackNotice
            /\ speechRef' = NoRef
            /\ recording' = FALSE
            /\ voiceBusy' = TRUE
            /\ voiceCalls' = voiceCalls (+) SetToBag({[kind |-> "getUserMedia",
                                 origin |-> "fallback", fromIdle |-> FALSE]})
       ELSE /\ voiceError' = RecognitionErrorMessage(err)
            /\ UNCHANGED <<speechRef, recording, voiceBusy, voiceCalls>>
    /\ last' = [op |-> "onerror", rec |-> r, error |-> err]
    /\ UNCHANGED <<mediaRecorderRef, mediaStreamRef, audioChunks, captures, speechCtor>>
    /\ UNCHANGED chatVars

\* rec.onend: fires once for a started session, after its error if it had one
RecOnEnd(r) ==
    /\ recs[r] \in {"started", "errored"}
    /\ recs' = [recs EXCEPT ![r] = "ended"]
    /\ recording' = FALSE
    /\ voiceBusy' = FALSE
    /\ speechRef' = NoRef
    /\ last' = [op |-> "onend", rec |-> r]
    /\ UNCHANGED <<voiceError, mediaRecorderRef, mediaStreamRef, audioChunks, captures,
                   speechCtor, voiceCalls>>
    /\ UNCHANGED chatVars

\* the capture the refs point to is the only thing alive: no continuation is
\* pending, no other recognition session awaits its end, no other stream or
\* recorder is held, no chunk is buffered
NothingElseOutstanding ==
    /\ voiceCalls = EmptyBag
    /\ \A r \in 1..Len(recs) : recs[r] # "errored"
    /\ LiveRecs \subseteq {speechRef}
    /\ LiveStreams \subseteq {mediaStreamRef}
    /\ ActiveRecorders \subseteq {mediaRecorderRef}
    /\ LiveRecs = {} \/ LiveStreams = {}
    /\ audioChunks = 0

\* mic button onClick while recording: stopVoiceRecording up to its await.
\* With a registered recognition handle it only calls its stop(); otherwise,
\* given a recorder and a user, it sets the flags and stops the recorder.
StopVoiceRecording ==
    /\ ~voiceBusy
    /\ recording
    /\ IF speechRef # NoRef
       THEN UNCHANGED <<voiceBusy, recording, captures, voiceCalls>>
       ELSE IF mediaRecorderRef = NoRef \/ user = Null
       THEN UNCHANGED <<voiceBusy, recording, captures, voiceCalls>>
       ELSE /\ voiceBusy' = TRUE
            /\ recording' = FALSE
            /\ IF captures[mediaRecorderRef].recorder = "recording"
               THEN /\ captures' = [captures EXCEPT ![mediaRecorderRef].recorder = "flushing"]
                    /\ voiceCalls' = voiceCalls (+) SetToBag({[kind |-> "recorderStop",
                                         recorder |-> mediaRecorderRef,
                                         language |-> store.language]})
               ELSE UNCHANGED <<captures, voiceCalls>>
    /\ last' = [op |-> "stopVoiceRecording",
                from |-> IF ~NothingElseOutstanding THEN "other"
                         ELSE IF speechRef # NoRef /\ recs[speechRef] = "started" THEN "live"
                         ELSE IF mediaRecorderRef # NoRef
                                 /\ captures[mediaRecorderRef].recorder = "recording"
                                 /\ mediaStreamRef # NoRef /\ captures[mediaStreamRef].stream
                         THEN "raw" ELSE "other",
                user |-> user]
    /\ UNCHANGED <<voiceError, speechRef, mediaRecorderRef, mediaStreamRef, audioChunks,
                   recs, speechCtor>>
    /\ UNCHANGED chatVars

\* recorder.ondataavailable: a stopped recorder delivers its data once
DataAvailable(k, size) ==
    /\ captures[k].recorder = "flushing"
    /\ captures' = [captures EXCEPT ![k].recorder = "stopping"]
    /\ audioChunks' = IF size > 0 THEN audioChunks + 1 ELSE audioChunks
    /\ last' = [op |-> "ondataavailable", recorder |-> k]
    /\ UNCHANGED <<recording, voiceBusy, voiceError, speechRef, mediaRecorderRef,
                   mediaStreamRef, recs, speechCtor, voiceCalls>>
    /\ UNCHANGED chatVars

\* the recorder's stop event; if stopVoiceRecording awaits it, its
\* continuation runs: the tracks of mediaStreamRef.current are stopped (a
\* recorder still recording on them stops with them), both refs are cleared
\* and the buffered chunks are sent to the transcription endpoint.
RecorderOnStop(k) ==
    /\ captures[k].recorder = "stopping"
    /\ LET waiting == {c \in PendingVoice("recorderStop") : c.recorder = k}
           stopped == [captures EXCEPT ![k].recorder = "inactive"]
       IN IF waiting = {}
          THEN /\ captures' = stopped
               /\ UNCHANGED <<mediaStreamRef, mediaRecorderRef, voiceCalls>>
          ELSE LET c == CHOOSE x \in waiting : TRUE
                   m == mediaStreamRef
               IN /\ captures' =
                        IF m = NoRef THEN stopped
                        ELSE [stopped EXCEPT
                                 ![m].stream = FALSE,
                                 ![m].recorder = IF stopped[m].recorder = "recording"
                                                 THEN "flushing" ELSE stopped[m].recorder]
                  /\ mediaStreamRef' = NoRef
                  /\ mediaRecorderRef' = NoRef
                  /\ voiceCalls' = (voiceCalls (-) SetToBag({c}))
                                   (+) SetToBag({[kind |-> "stt", language |-> c.language]})
    /\ last' = [op |-> "onstop", recorder |-> k]
    /\ UNCHANGED <<recording, voiceBusy, voiceError, speechRef, audioChunks, recs, speechCtor>>
    /\ UNCHANGED chatVars

\* stopVoiceRecording after the transcription request: 2xx with a body
SttOk(c, data) ==
    /\ c.kind = "stt"
    /\ Len(JoinInput(input, data.text)) <= MaxInputLen
    /\ input' = IF data.text # <<>> THEN JoinInput(input, data.text) ELSE input
    /\ store' = IF c.language = "auto" /\ data.detected_lang \notin {Undefined, ""}
                THEN setLanguage(store, normalizeUiLanguage(data.detected_lang))
                ELSE store
    /\ voiceBusy' = FALSE
    /\ audioChunks' = 0
    /\ voiceCalls' = voiceCalls (-) SetToBag({c})
    /\ last' = [op |-> "sttDone", outcome |-> "ok", language |-> c.language, data |-> data]
    /\ UNCHANGED <<media, loading, user, calls, uuidCount>>
    /\ UNCHANGED <<recording, voiceError, speechRef, mediaRecorderRef, mediaStreamRef,
                   recs, captures, speechCtor>>

\* stopVoiceRecording after the transcription request: catch branch
SttFail(c, why) ==
    /\ c.kind = "stt"
    /\ voiceError' = SttErrorMessage(why)
    /\ voiceBusy' = FALSE
    /\ audioChunks' = 0
    /\ voiceCalls' = voiceCalls (-) SetToBag({c})
    /\ last' = [op |-> "sttDone", outcome |-> why, language |-> c.language]
    /\ UNCHANGED <<recording, speechRef, mediaRecorderRef, mediaStreamRef,
                   recs, captures, speechCtor>>
    /\ UNCHANGED chatVars

VoiceCallbacks ==
    \/ \E c \in BagToSet(voiceCalls) : GetUserMediaOk(c) \/ GetUserMediaFail(c)
    \/ \E r \in 1..Len(recs) : RecOnEnd(r)
    \/ \E k \in 1..Len(captures), size \in {0, 1} : DataAvailable(k, size)
    \/ \E k \in 1..Len(captures) : RecorderOnStop(k)
    \/ \E c \in BagToSet(voiceCalls), data \in SttBodies : SttOk(c, data)
    \/ \E c \in BagToSet(voiceCalls), why \in SttFailures : SttFail(c, why)

NextVoice ==
    \/ \E lang \in LangChoices : SelectLanguage(lang)
    \/ AuthStateChanged
    \/ StartVoiceRecording
    \/ \E r \in 1..Len(recs), transcript \in Transcripts : RecOnResult(r, transcript)
    \/ \E r \in 1..Len(recs), err \in RecognitionErrors : RecOnError(r, err)
    \/ \E r \in 1..Len(recs) : RecOnEnd(r)
    \/ \E c \in BagToSet(voiceCalls) : GetUserMediaOk(c)
    \/ \E c \in BagToSet(voiceCalls) : GetUserMediaFail(c)
    \/ StopVoiceRecording
    \/ \E k \in 1..Len(captures), size \in {0, 1} : DataAvailable(k, size)
    \/ \E k \in 1..Len(captures) : RecorderOnStop(k)
    \/ \E c \in BagToSet(voiceCalls), data \in SttBodies : SttOk(c, data)
    \/ \E c \in BagToSet(voiceCalls), why \in SttFailures : SttFail(c, why)

SpecVoice == InitVoice /\ [][NextVoice]_vars

\* The browser delivers every pending callback: device acquisition results,
\* the end of a recognition session, recorder events, transcription responses.
SpecVoiceFair == InitVoice /\ [][NextVoice]_vars /\ WF_vars(VoiceCallbacks)

TypeOKVoice ==
    /\ recording \in BOOLEAN
    /\ voiceBusy \in BOOLEAN
    /\ speechRef \in {NoRef} \cup (1..MaxRecs)
    /\ mediaRecorderRef \in {NoRef} \cup (1..MaxCaptures)
    /\ mediaStreamRef \in {NoRef} \cup (1..MaxCaptures)
    /\ audioChunks \in 0..MaxCaptures
    /\ Len(input) <= MaxInputLen

(***************************************************************************)
(* Claims on the voice capture state machine (SpecVoice, SpecVoiceFair)    *)
(***************************************************************************)
\* recognition handle registered and started
LiveRecognitionActive ==
    /\ speechRef # NoRef
    /\ recs[speechRef] = "started"

\* recorder running on an acquired stream, recording = true, voiceBusy = false
RawRecordingActive ==
    /\ mediaRecorderRef # NoRef
    /\ captures[mediaRecorderRef].recorder = "recording"
    /\ mediaStreamRef # NoRef
    /\ captures[mediaStreamRef].stream
    /\ recording
    /\ ~voiceBusy

\* Idle as the component sees it: flags down, refs cleared, chunks discarded
IdleState ==
    /\ ~recording
    /\ ~voiceBusy
    /\ speechRef = NoRef
    /\ mediaRecorderRef = NoRef
    /\ mediaStreamRef = NoRef
    /\ audioChunks = 0

\* C4: there is never more than one outstanding capture: at most one started
\* recognition session, one live stream and one running recorder, and never a
\* recognition session together with a stream or recorder.
C4_AtMostOneCapture ==
    /\ Cardinality(LiveRecs) <= 1
    /\ Cardinality(LiveStreams) <= 1
    /\ Cardinality(ActiveRecorders) <= 1
    /\ LiveRecs = {} \/ (LiveStreams = {} /\ ActiveRecorders = {})

\* C5: whenever the flags say Idle (recording and voiceBusy false, no device
\* acquisition pending) no recognition handle is registered, no recorder is
\* running and no microphone stream is held.
C5_IdleFlagsMeanNothingHeld ==
    (~recording /\ ~voiceBusy /\ PendingVoice("getUserMedia") = {}) =>
        /\ speechRef = NoRef
        /\ mediaRecorderRef = NoRef
        /\ mediaStreamRef = NoRef
        /\ LiveStreams = {}
        /\ \A k \in 1..Len(captures) : captures[k].recorder # "recording"

\* C6: for a signed-in user, a stopVoiceRecording call made in
\* LiveRecognitionActive or RawRecordingActive leads to Idle (flags down, no
\* handle, recorder or stream, no buffered chunks) once the pending callbacks
\* are delivered.
C6_StopLeadsToIdle ==
    (last.op = "stopVoiceRecording" /\ last.from \in {"live", "raw"} /\ last.user # Null)
        ~> IdleState

\* a startVoiceRecording call made in Idle has just come to its end: it
\* started the recognition session, or its getUserMedia settled
StartFromIdleEnded ==
    \/ last.op = "startVoiceRecording" /\ last.live /\ last.fromIdle
    \/ last.op = "getUserMedia" /\ last.origin = "start" /\ last.fromIdle

IdleWithError == IdleState /\ voiceError # ""

\* C7: a startVoiceRecording call made in Idle ends in exactly one of
\* LiveRecognitionActive, RawRecordingActive and Idle with voiceError set; if
\* recognition is unavailable or its set-up threw, it does not end in
\* LiveRecognitionActive.
C7_StartEndsInOneState ==
    StartFromIdleEnded =>
        /\ \/ LiveRecognitionActive /\ ~RawRecordingActive /\ ~IdleWithError
           \/ ~LiveRecognitionActive /\ RawRecordingActive /\ ~IdleWithError
           \/ ~LiveRecognitionActive /\ ~RawRecordingActive /\ IdleWithError
        /\ last.op = "getUserMedia" => ~LiveRecognitionActive

NetworkErrorStep == \E r \in 1..Len(recs) : RecOnError(r, "network")

FallbackSettled(outcome) ==
    /\ \E c \in PendingVoice("getUserMedia") :
           c.origin = "fallback" /\ (GetUserMediaOk(c) \/ GetUserMediaFail(c))
    /\ last'.outcome = outcome

ExpectedUiLanguage(code) ==
    IF LowerTrim(code) \in {"en", "en-in"} THEN "en-IN"
    ELSE IF LowerTrim(code) \in {"hi", "hi-in"} THEN "hi-IN"
    ELSE IF LowerTrim(code) \in {"ta", "ta-in"} THEN "ta-IN"
    ELSE IF LowerTrim(code) \in {"bn", "bn-in"} THEN "bn-IN"
    ELSE IF LowerTrim(code) \in {"te", "te-in"} THEN "te-IN"
    ELSE IF LowerTrim(code) \in {"mr", "mr-in"} THEN "mr-IN"
    ELSE "en-IN"

\* the transcription response stores a detected language in this step
StoresDetectedLanguage(c, data) ==
    /\ SttOk(c, data)
    /\ c.language = "auto"
    /\ data.detected_lang \notin {Undefined, ""}

\* C24: the language stopVoiceRecording stores from a detected language is
\* the region-qualified code of the fixed table for that language (matched
\* case-insensitively), and en-IN when the table has no entry for it.
C24_DetectedLanguageNormalized ==
    [][\A c \in BagToSet(voiceCalls), data \in SttBodies :
          StoresDetectedLanguage(c, data)
             => store'.language = ExpectedUiLanguage(data.detected_lang)]_vars

\* C25: when the transcription of a stopped raw recording succeeds, a
\* non-empty text is appended to the input (behind a single space if the
\* input is non-empty, alone otherwise) and an empty one leaves the input;
\* the UI language changes only if it was "auto" and the response carries a
\* detected language.
C25_TranscriptAppendedLanguageOnlyFromAuto ==
    [][\A c \in BagToSet(voiceCalls), data \in SttBodies :
          SttOk(c, data)
             => /\ input' = IF data.text = <<>> THEN input
                            ELSE IF input = <<>> THEN data.text
                            ELSE input \o <<" ">> \o data.text
                /\ store'.language # store.language
                      => /\ store.language = "auto"
                         /\ data.detected_lang # Undefined]_vars

\* a recognition error other than "network" is reported in this step
OtherErrorStep == \E r \in 1..Len(recs) : RecOnError(r, "no-speech")

\* C26: a live-recognition error other than "network" sets voiceError to the
\* message naming the error, starts no microphone acquisition and no
\* recorder, and the end of that live session puts the machine in Idle.
C26_OtherErrorSurfacesWithoutFallback ==
    [][/\ OtherErrorStep
             => /\ voiceError' = "Voice recognition error: no-speech"
                /\ UNCHANGED <<voiceCalls, captures, mediaRecorderRef, mediaStreamRef>>
       /\ (last.op = "onerror" /\ last.error # "network" /\ RecOnEnd(last.rec))
             => IdleState']_vars
(***************************************************************************)
(* Overlapping sends: a signed-in user with one remote session composes    *)
(* one message and presses send, possibly more than once; sessions are     *)
(* selected meanwhile and the responses arrive in any order                *)
(***************************************************************************)
MaxOverlapMsgs == 4  \* messages two overlapping sends may add to the store

OverlapInputs == {<<" ">>, <<" ", "b">>}

OverlapMedia == {<<>>, <<[kind |-> "image", content |-> "b64i"]>>}

InitOverlap ==
    /\ \E a \in {Null, "s1"} :
          store = [sessions |-> <<[id |-> "s1", title |-> NewChatTitle,
                                   updated_at |-> Undefined]>>,
                   activeSessionId |-> a,
                   messagesBySession |-> [k \in {"s1"} |-> <<>>],
                   language |-> "auto"]
    /\ input \in OverlapInputs
    /\ media \in OverlapMedia
    /\ loading = FALSE
    /\ user = Uid
    /\ calls = EmptyBag
    /\ uuidCount = 0
    /\ recording = FALSE
    /\ voiceBusy = FALSE
    /\ voiceError = ""
    /\ speechRef = NoRef
    /\ mediaRecorderRef = NoRef
    /\ mediaStreamRef = NoRef
    /\ audioChunks = 0
    /\ recs = <<>>
    /\ captures = <<>>
    /\ voiceCalls = EmptyBag
    /\ speechCtor = "works"
    /\ last = [op |-> "setInput"]

\* sendMessage called while the logs have room, whatever is in flight
SendMessageOverlapping ==
    /\ TotalMsgs(store) + 2 * SendsInFlight + 2 <= MaxOverlapMsgs
    /\ SendMessageCall

NextOverlap ==
    \/ SendMessageOverlapping
    \/ \E c \in BagToSet(calls), data \in SyncRemoteSessions : CreateSessionDone(c, "ok", data)
    \/ \E c \in BagToSet(calls), why \in FailureKinds : CreateSessionDone(c, why, NoSessionData)
    \/ \E c \in BagToSet(calls), data \in ChatResponses : ChatOk(c, data)
    \/ \E c \in BagToSet(calls), why \in FailureKinds : ChatFail(c, why)
    \/ \E c \in BagToSet(calls) : RefreshTimer(c)
    \/ \E c \in BagToSet(calls), data \in RemoteLists : LoadSessionsOk(c, data)
    \/ \E c \in BagToSet(calls), why \in FailureKinds : LoadSessionsFail(c, why)
    \/ \E id \in SessionIds(store.sessions) : SelectSession(id)
    \/ \E c \in BagToSet(calls), data \in RemoteDetails : LoadSessionMessagesOk(c, data)
    \/ \E c \in BagToSet(calls), why \in FailureKinds : LoadSessionMessagesFail(c, why)

SpecOverlap == InitOverlap /\ [][NextOverlap]_vars

(***************************************************************************)
(* Claims on overlapping sends (SpecOverlap)                               *)
(***************************************************************************)
\* the step appends message to the log of id and leaves every other log and
\* every session other than id as it is
AppendsOnlyTo(id, message) ==
    /\ OtherLogsSame(id)
    /\ store'.messagesBySession[id] = Append(LogOf(store.messagesBySession, id), message)
    /\ OtherSessionsSame(id)
    /\ store'.activeSessionId = store.activeSessionId

\* C31: the assistant turn (reply or error placeholder) and the title update
\* of a sendMessage call go to the session id its user turn was appended to,
\* also when the active session was switched, another session was created or
\* other messages were sent while the chat request was in flight; the call
\* touches the log of no other session.
C31_ReplyGoesToSendersSession ==
    [][/\ \A c \in ChatIssued :
             /\ OtherLogsSame(c.session_id)
             /\ LET log == store'.messagesBySession[c.session_id]
                IN /\ log # <<>>
                   /\ log[Len(log)].role = "user"
                   /\ log[Len(log)].text = c.message
       /\ \A c \in BagToSet(calls), data \in ChatResponses :
             ChatOk(c, data)
                => /\ AppendsOnlyTo(c.session_id,
                                    AssistantMessage(IF data.response = UndefinedText
                                                     THEN NoResponseText ELSE data.response))
                   /\ TitleOf(store', c.session_id) \subseteq
                          (IF data.title # "" THEN {data.title}
                           ELSE TitleOf(store, c.session_id))
       /\ \A c \in BagToSet(calls), why \in FailureKinds :
             ChatFail(c, why)
                => /\ AppendsOnlyTo(c.session_id, AssistantMessage(NetworkErrorText))
                   /\ store'.sessions = store.sessions]_vars

\* C31 witness: the chat request of one send has completed on its session
\* while another session, holding the user turn of a second send whose
\* request is still in flight, is the active one.
C31_Witness ==
    /\ last.op = "chatDone"
    /\ store.activeSessionId \notin {Null, last.id}
    /\ LET log == LogOf(store.messagesBySession, last.id)
       IN /\ Len(log) = 2
          /\ log[2].role = "assistant"
    /\ \E c \in CallsOfKind("chat") :
          /\ c.session_id = store.activeSessionId
          /\ Len(LogOf(store.messagesBySession, c.session_id)) = 1

(***************************************************************************)
(* Claims on createSession racing other handlers                           *)
(***************************************************************************)
\* a createSession result (success or failure) is applied in this step
CreateSessionApplied(c) ==
    \/ \E data \in SyncRemoteSessions : CreateSessionDone(c, "ok", data)
    \/ \E why \in FailureKinds : CreateSessionDone(c, why, NoSessionData)

\* C32: every session in the store's session set immediately before a
\* createSession result (success or failure) is applied is still in the set
\* afterwards, also when a loadSessions or another createSession completed
\* while the request was in flight.
C32_CreateKeepsOtherSessions ==
    [][\A c \in BagToSet(calls) :
          CreateSessionApplied(c)
             => SessionIds(store.sessions) \subseteq SessionIds(store'.sessions)]_vars

\* C33: a session removed from the store by deleteSession is not put back
\* into the session set by the continuation of a createSession call that was
\* started before the removal (here: one in flight when the removal was
\* applied and completing right behind it with another id).
C33_DeletedSessionStaysDeleted ==
    [][\A c \in BagToSet(calls) :
          (/\ last.op = "deleteSessionDone"
           /\ CreateSessionApplied(c)
           /\ store'.activeSessionId # last.id)
             => last.id \notin SessionIds(store'.sessions)]_vars

\* the user turns sendMessage can append for the composed message
ComposedTurns ==
    {UserMessage(inp, med) : inp \in OverlapInputs, med \in OverlapMedia}

\* how often a user turn of the composed message stands in the log
RECURSIVE TurnsIn(_)
TurnsIn(log) ==
    IF log = <<>> THEN 0
    ELSE (IF Head(log) \in ComposedTurns THEN 1 ELSE 0) + TurnsIn(Tail(log))

RECURSIVE TurnsInLogs(_, _)
TurnsInLogs(m, keys) ==
    IF keys = {} THEN 0
    ELSE LET k == CHOOSE x \in keys : TRUE IN TurnsIn(m[k]) + TurnsInLogs(m, keys \ {k})

\* C34: one composed input yields at most one user message and at most one
\* new session: also when sendMessage is invoked again with the same
\* not-yet-cleared input while an earlier call still awaits its automatic
\* createSession, the user turn stands once in the store, in one session.
C34_OneTurnPerComposedInput ==
    /\ TurnsInLogs(store.messagesBySession, DOMAIN store.messagesBySession) <= 1
    /\ Cardinality({k \in DOMAIN store.messagesBySession :
                       TurnsIn(store.messagesBySession[k]) > 0}) <= 1

\* C36: loading is true in every state in which a chat request issued by
\* sendMessage is in flight and false in every state in which none is, also
\* when several sendMessage calls overlap.
C36_LoadingIffChatInFlight ==
    loading <=> (CallsOfKind("chat") # {})

(***************************************************************************)
(* Claim on the language menu racing a transcription (SpecVoice)           *)
(***************************************************************************)
\* C35: an explicitly selected (non-"auto") UI language is never overwritten
\* by a detected language: when the user has changed the language from
\* "auto" to a specific code while the transcription request was in flight,
\* the response leaves the store's language as it is.
C35_SelectedLanguageKept ==
    [][\A c \in BagToSet(voiceCalls), data \in SttBodies :
          (SttOk(c, data) /\ store.language # "auto")
             => store'.language = store.language]_vars

====
